---- MODULE Spec2Model ----
(***************************************************************************)
(* A model of the uniffi interface compiler excerpt:                       *)
(*   - the two Error converters (interface/error.rs),                      *)
(*   - the canonical-IDL type filters and write_bindings (bindings/udl),   *)
(*   - the `cargo uniffi check` command (cargo_uniffi).                    *)
(* Strings are sequences of one-character strings, so that formatting,     *)
(* indentation and concatenation are computed and not assumed.             *)
(***************************************************************************)
EXTENDS Naturals, Sequences, FiniteSets

VARIABLES
    conv_op,        \* which converter ran last: "none", "idl", "syn", "from_webidl"
    conv_in,        \* the syntax node (or document) it was given
    conv_ci,        \* the ComponentInterface it was given
    conv_out,       \* what it returned: [result, ci]
    udl_op,         \* which filter ran last: "none", "type_udl", "return_type_udl"
    udl_in,         \* its argument
    udl_out,        \* its Result<String, askama::Error>
    wb_pc,          \* write_bindings: position in the function body
    wb_ci,          \* write_bindings: the ci argument
    wb_file,        \* write_bindings: the udl_file path
    wb_before,      \* the file system when write_bindings was entered
    wb_result,      \* write_bindings: the returned Result
    fs,             \* the file system: path -> content, or Absent
    UNIFFI_VERSION, \* the version string this tool was built with
    chk_in,         \* check: the TargetCrate it was given
    chk_out,        \* check: the returned Result
    lib_in,         \* cdylib_target: the TargetCrate it was called on
    lib_out,        \* cdylib_target: the returned Result
    gr_pc,          \* gradle: position in execute_command and its callees
    gr_args,        \* gradle: the user's additional arguments
    gr_target_dir,  \* gradle: cargo_metadata.target_directory
    gr_cwd,         \* gradle: the current directory of the cargo-uniffi process
    gr_fs,          \* gradle: project directory -> absent, or its build.gradle
    gr_proc,        \* gradle: the spawned gradle process, if any
    gr_result       \* gradle: the returned Result

vars == << conv_op, conv_in, conv_ci, conv_out, udl_op, udl_in, udl_out,
           wb_pc, wb_ci, wb_file, wb_before, wb_result, fs,
           UNIFFI_VERSION, chk_in, chk_out, lib_in, lib_out,
           gr_pc, gr_args, gr_target_dir, gr_cwd, gr_fs, gr_proc, gr_result >>

convVars  == << conv_op, conv_in, conv_ci, conv_out >>
udlVars   == << udl_op, udl_in, udl_out >>
writeVars == << wb_pc, wb_ci, wb_file, wb_before, wb_result, fs >>
checkVars == << UNIFFI_VERSION, chk_in, chk_out, lib_in, lib_out >>
gradleVars == << gr_pc, gr_args, gr_target_dir, gr_cwd, gr_fs, gr_proc,
                 gr_result >>

----------------------------------------------------------------------------
(* Bounds of the model.                                                    *)

MaxVariants == 2    \* variants of an embedded-attribute enum
MaxLabels == 3      \* member labels of an IDL enum
MaxEnums == 1       \* [Error] enums of an IDL document
MaxDepth == 2       \* nesting depth of a Type
MaxDeps == 1        \* declared dependencies of the root package
MaxPackages == 2    \* resolved packages beside the root package
MaxTargets == 2     \* build targets of the root package
MaxArgs == 2        \* additional arguments given to the gradle command

----------------------------------------------------------------------------
(* Results and strings.                                                    *)

Ok(v) == [ok |-> TRUE, value |-> v]
Err(m) == [ok |-> FALSE, error |-> m]

\* s occurs in text starting at position i.
OccursAt(text, s, i) ==
    /\ i >= 1
    /\ i + Len(s) - 1 <= Len(text)
    /\ SubSeq(text, i, i + Len(s) - 1) = s

Occurrences(text, s) == { i \in 1..Len(text) : OccursAt(text, s, i) }

IdentChars ==
    { "a", "b", "c", "d", "e", "f", "g", "h", "i", "j", "k", "l", "m",
      "n", "o", "p", "q", "r", "s", "t", "u", "v", "w", "x", "y", "z",
      "A", "B", "C", "D", "E", "F", "G", "H", "I", "J", "K", "L", "M",
      "N", "O", "P", "Q", "R", "S", "T", "U", "V", "W", "X", "Y", "Z",
      "0", "1", "2", "3", "4", "5", "6", "7", "8", "9", "_" }

\* The identifier s occurs in text as a word of its own.
NamesWord(text, s) ==
    \E i \in Occurrences(text, s) :
        /\ i = 1 \/ text[i - 1] \notin IdentChars
        /\ i + Len(s) > Len(text) \/ text[i + Len(s)] \notin IdentChars

\* String::to_string / Ident::to_string / &str::to_string: the same characters.
to_string(s) == s

----------------------------------------------------------------------------
(* interface/error.rs: struct Error and the ComponentInterface it is       *)
(* converted for.                                                          *)

Error(name, values, docs) == [name |-> name, values |-> values, docs |-> docs]

S_Testing == <<"T", "e", "s", "t", "i", "n", "g">>
S_Example == <<"E", "x", "a", "m", "p", "l", "e">>
S_one == <<"o", "n", "e">>
S_two == <<"t", "w", "o">>
S_v == <<"v">>
S_does_a_thing == <<"d", "o", "e", "s", " ", "a", " ", "t", "h", "i", "n", "g">>
S_detail == <<"d", "e", "t", "a", "i", "l">>
S_test == <<"t", "e", "s", "t">>

\* The ComponentInterface: a namespace and the registered Error definitions,
\* in registration order.
NewComponentInterface(namespace) == [namespace |-> namespace, errors |-> << >>]

\* register(definition): fails on a definition of the same kind and name.
add_error_definition(ci, defn) ==
    IF \E i \in 1..Len(ci.errors) : ci.errors[i].name = defn.name
    THEN Err(<<"D", "u", "p", "l", "i", "c", "a", "t", "e">>)
    ELSE Ok([ci EXCEPT !.errors = Append(@, defn)])

----------------------------------------------------------------------------
(* impl APIConverter<Error> for weedle::EnumDefinition                     *)

\* A mutant: repeated labels are dropped.
RECURSIVE Dedup(_)
Dedup(labels) ==
    IF labels = << >> THEN << >>
    ELSE LET front == Dedup(SubSeq(labels, 1, Len(labels) - 1))
             last == labels[Len(labels)]
         IN  IF \E i \in 1..Len(front) : front[i] = last
             THEN front ELSE Append(front, last)

convert_idl_dedup(self, ci) ==
    [result |-> Ok(Error(to_string(self.identifier), Dedup(self.values), << >>)),
     ci |-> ci]

convert_idl(self, ci) ==
    [result |-> Ok(Error(to_string(self.identifier),
                         [i \in 1..Len(self.values) |-> to_string(self.values[i])],
                         << >>)),
     ci |-> ci]

----------------------------------------------------------------------------
(* impl APIConverter<Error> for &syn::ItemEnum                             *)

MSG_DISCRIMINANT ==
    <<"E", "x", "p", "l", "i", "c", "i", "t", " ", "e", "n", "u", "m", " ",
      "d", "i", "s", "c", "r", "i", "m", "i", "n", "a", "n", "t", "s", " ",
      "a", "r", "e", " ", "n", "o", "t", " ", "s", "u", "p", "p", "o", "r",
      "t", "e", "d">>

MSG_FIELDS ==
    <<"E", "r", "r", "o", "r", " ", "e", "n", "u", "m", " ", "v", "a", "r",
      "i", "a", "n", "t", "s", " ", "c", "a", "n", "n", "o", "t", " ", "c",
      "u", "r", "r", "e", "n", "t", "l", "y", " ", "h", "a", "v", "e", " ",
      "f", "i", "e", "l", "d", "s">>

\* synner::Attributes::try_from: the documentation lines of the attributes.
Attributes_try_from(attrs) == Ok([docs |-> attrs])

\* The grave accent U+0060, which a TLA+ string cannot hold: one character.
GRAVE == "U+0060"

\* format! of two spaces, GRAVE, v.ident.to_string(), GRAVE and a colon
VariantMarker(ident) == <<" ", " ", GRAVE>> \o to_string(ident) \o <<GRAVE, ":">>

\* format!("      {}", ln)
VariantDocLine(ln) == <<" ", " ", " ", " ", " ", " ">> \o ln

\* The closure given to map(), run on the variants in order by collect():
\* it stops at the first Err; docs is the captured, mutated vector.
RECURSIVE convert_variants(_, _, _)
\* A mutant: the fields of a variant are looked at before its discriminant.
convert_variants_fields_first(variants, values, docs) ==
    IF variants = << >> THEN Ok([values |-> values, docs |-> docs])
    ELSE LET v == Head(variants)
             attrs == Attributes_try_from(v.attrs)
         IN  IF ~attrs.ok THEN attrs
             ELSE IF v.fields # "Unit" THEN Err(MSG_FIELDS)
             ELSE IF v.discriminant THEN Err(MSG_DISCRIMINANT)
             ELSE convert_variants(
                     Tail(variants),
                     Append(values, to_string(v.ident)),
                     IF Len(attrs.value.docs) > 0
                     THEN docs \o << << >> >> \o << VariantMarker(v.ident) >>
                          \o [i \in 1..Len(attrs.value.docs) |->
                                 VariantDocLine(attrs.value.docs[i])]
                     ELSE docs)

convert_variants(variants, values, docs) ==
    IF variants = << >> THEN Ok([values |-> values, docs |-> docs])
    ELSE LET v == Head(variants)
             attrs == Attributes_try_from(v.attrs)
         IN  IF ~attrs.ok THEN attrs
             ELSE IF v.discriminant THEN Err(MSG_DISCRIMINANT)
             ELSE IF v.fields # "Unit" THEN Err(MSG_FIELDS)
             ELSE convert_variants(
                     Tail(variants),
                     Append(values, to_string(v.ident)),
                     IF Len(attrs.value.docs) > 0
                     THEN docs \o << << >> >> \o << VariantMarker(v.ident) >>
                          \o [i \in 1..Len(attrs.value.docs) |->
                                 VariantDocLine(attrs.value.docs[i])]
                     ELSE docs)

\* A mutant: the variants are collected in reverse.
convert_syn_reversed(self, ci) ==
    LET attrs == Attributes_try_from(self.attrs)
        r == convert_variants(self.variants, << >>, attrs.value.docs)
    IN  [result |->
            IF r.ok
            THEN Ok(Error(to_string(self.ident),
                          [i \in 1..Len(r.value.values) |->
                              r.value.values[Len(r.value.values) + 1 - i]],
                          r.value.docs))
            ELSE r,
         ci |-> ci]

\* A mutant: the definition is put into the interface before the variants
\* are checked.
convert_syn_registers_early(self, ci) ==
    LET attrs == Attributes_try_from(self.attrs)
        r == convert_variants(self.variants, << >>, attrs.value.docs)
    IN  [result |->
            IF r.ok
            THEN Ok(Error(to_string(self.ident), r.value.values, r.value.docs))
            ELSE r,
         ci |-> [ci EXCEPT !.errors =
                    Append(@, Error(to_string(self.ident), << >>, << >>))]]

convert_syn(self, ci) ==
    LET attrs == Attributes_try_from(self.attrs)
    IN  IF ~attrs.ok THEN [result |-> attrs, ci |-> ci]
        ELSE LET r == convert_variants(self.variants, << >>, attrs.value.docs)
             IN  [result |->
                     IF r.ok
                     THEN Ok(Error(to_string(self.ident), r.value.values,
                                   r.value.docs))
                     ELSE r,
                  ci |-> ci]

----------------------------------------------------------------------------
(* ComponentInterface::from_webidl on a document of [Error] enums: each is  *)
(* converted and registered, in order; the first failure is returned.       *)

RECURSIVE register_all(_, _)
register_all(ci, enums) ==
    IF enums = << >> THEN Ok(ci)
    ELSE LET c == convert_idl(Head(enums), ci)
         IN  IF ~c.result.ok THEN c.result
             ELSE LET a == add_error_definition(c.ci, c.result.value)
                  IN  IF ~a.ok THEN a ELSE register_all(a.value, Tail(enums))

from_webidl(doc) == register_all(NewComponentInterface(doc.namespace), doc.enums)

----------------------------------------------------------------------------
(* bindings/udl/gen_udl.rs: the filters of the canonical-IDL backend.       *)

PrimitiveKinds ==
    { "UInt8", "UInt16", "UInt32", "UInt64", "Int8", "Int16", "Int32",
      "Int64", "Float32", "Float64", "Boolean", "String" }

NamedKinds == { "Enum", "Record", "Object", "Error", "CallbackInterface" }

CompositeKinds == { "Optional", "Sequence", "Map" }

\* enum Type, nested to depth d.
RECURSIVE TypesOfDepth(_)
TypesOfDepth(d) ==
    IF d = 0
    THEN { [kind |-> k] : k \in PrimitiveKinds }
         \cup { [kind |-> k, name |-> n] :
                    k \in NamedKinds, n \in { S_Testing, S_Example } }
    ELSE LET inner == TypesOfDepth(d - 1)
         IN  inner \cup { [kind |-> k, inner |-> t] :
                              k \in CompositeKinds, t \in inner }

Types == TypesOfDepth(MaxDepth)

None == [some |-> FALSE]
Some(t) == [some |-> TRUE, value |-> t]

\* A mutant: the optionality marker is put before the inner type, and a
\* string-keyed map is spelled like a sequence.
RECURSIVE type_udl(_)
type_udl_marker_first(type_) ==
    CASE type_.kind = "UInt8" -> Ok(<<"u", "8">>)
      [] type_.kind = "UInt16" -> Ok(<<"u", "1", "6">>)
      [] type_.kind = "UInt32" -> Ok(<<"u", "3", "2">>)
      [] type_.kind = "UInt64" -> Ok(<<"u", "6", "4">>)
      [] type_.kind = "Int8" -> Ok(<<"i", "8">>)
      [] type_.kind = "Int16" -> Ok(<<"i", "1", "6">>)
      [] type_.kind = "Int32" -> Ok(<<"i", "3", "2">>)
      [] type_.kind = "Int64" -> Ok(<<"i", "6", "4">>)
      [] type_.kind = "Float32" -> Ok(<<"f", "3", "2">>)
      [] type_.kind = "Float64" -> Ok(<<"f", "6", "4">>)
      [] type_.kind = "Boolean" -> Ok(<<"b", "o", "o", "l", "e", "a", "n">>)
      [] type_.kind = "String" -> Ok(<<"s", "t", "r", "i", "n", "g">>)
      [] type_.kind \in NamedKinds -> Ok(type_.name)
      [] type_.kind = "Optional" ->
            LET t == type_udl(type_.inner)
            IN  IF ~t.ok THEN t ELSE Ok(<<"?">> \o t.value)
      [] type_.kind = "Sequence" ->
            LET t == type_udl(type_.inner)
            IN  IF ~t.ok THEN t
                ELSE Ok(<<"s", "e", "q", "u", "e", "n", "c", "e", "<">>
                        \o t.value \o <<">">>)
      [] type_.kind = "Map" ->
            LET t == type_udl(type_.inner)
            IN  IF ~t.ok THEN t
                ELSE Ok(<<"s", "e", "q", "u", "e", "n", "c", "e", "<">>
                        \o t.value \o <<">">>)

\* filters::type_udl
type_udl(type_) ==
    CASE type_.kind = "UInt8" -> Ok(<<"u", "8">>)
      [] type_.kind = "UInt16" -> Ok(<<"u", "1", "6">>)
      [] type_.kind = "UInt32" -> Ok(<<"u", "3", "2">>)
      [] type_.kind = "UInt64" -> Ok(<<"u", "6", "4">>)
      [] type_.kind = "Int8" -> Ok(<<"i", "8">>)
      [] type_.kind = "Int16" -> Ok(<<"i", "1", "6">>)
      [] type_.kind = "Int32" -> Ok(<<"i", "3", "2">>)
      [] type_.kind = "Int64" -> Ok(<<"i", "6", "4">>)
      [] type_.kind = "Float32" -> Ok(<<"f", "3", "2">>)
      [] type_.kind = "Float64" -> Ok(<<"f", "6", "4">>)
      [] type_.kind = "Boolean" -> Ok(<<"b", "o", "o", "l", "e", "a", "n">>)
      [] type_.kind = "String" -> Ok(<<"s", "t", "r", "i", "n", "g">>)
      [] type_.kind \in NamedKinds -> Ok(type_.name)
      [] type_.kind = "Optional" ->
            LET t == type_udl(type_.inner)
            IN  IF ~t.ok THEN t ELSE Ok(t.value \o <<"?">>)
      [] type_.kind = "Sequence" ->
            LET t == type_udl(type_.inner)
            IN  IF ~t.ok THEN t
                ELSE Ok(<<"s", "e", "q", "u", "e", "n", "c", "e", "<">>
                        \o t.value \o <<">">>)
      [] type_.kind = "Map" ->
            LET t == type_udl(type_.inner)
            IN  IF ~t.ok THEN t
                ELSE Ok(<<"r", "e", "c", "o", "r", "d", "<", "D", "O", "M",
                          "S", "t", "r", "i", "n", "g", ",", " ">>
                        \o t.value \o <<">">>)

\* A mutant: an absent return type renders as the empty string.
return_type_udl_blank(type_) ==
    IF ~type_.some THEN Ok(<< >>) ELSE type_udl(type_.value)

\* filters::return_type_udl
return_type_udl(type_) ==
    IF ~type_.some THEN Ok(<<"v", "o", "i", "d">>) ELSE type_udl(type_.value)

----------------------------------------------------------------------------
(* bindings/udl/mod.rs: write_bindings and generate_udl_bindings.           *)

S_generated_udl ==
    <<".", "g", "e", "n", "e", "r", "a", "t", "e", "d", ".", "u", "d", "l">>

\* PathBuf::from(out_dir) with format!("{}.generated.udl", ci.namespace())
\* pushed onto it.
udl_file_path(ci, out_dir) == << out_dir, ci.namespace \o S_generated_udl >>

\* UDLFile::render on the component.udl template: the text of the interface,
\* one line for the namespace and one for each definition.
UDLFile_render(ci) ==
    << << "namespace", ci.namespace >> >>
    \o [i \in 1..Len(ci.errors) |-> << "enum", ci.errors[i].name >>]

ERR_CREATE == "Failed to create .generated.udl file for bindings"
ERR_RENDER == "failed to render UDL bindings"
ERR_WRITE == "io error"

\* generate_udl_bindings: the rendered text, or the mapped render error.
generate_udl_bindings(ci, render_ok) ==
    IF render_ok THEN Ok(UDLFile_render(ci)) ELSE Err(ERR_RENDER)

----------------------------------------------------------------------------
(* cargo_uniffi: the check command.                                         *)

Digit == <<"0", "1", "2", "3", "4", "5", "6", "7", "8", "9">>

\* semver::Version::to_string
version_to_string(v) ==
    << Digit[v.major + 1], ".", Digit[v.minor + 1], ".", Digit[v.patch + 1] >>

ERR_NO_ROOT == "Could not determine root package metadata"
ERR_NO_UNIFFI == "The crate doesn't depend on the uniffi runtime"
ERR_MULTIPLE_UNIFFI == "The crate depends on multiple versions of uniffi"
ERR_VERSION == "The crate depends on a different version of uniffi"
ERR_NO_CDYLIB == "The crate doesn't build a dynamic library"
ERR_MULTIPLE_CDYLIB == "The crate builds multiple dynamic libraries"

\* TargetCrate::root_package
root_package(target) ==
    IF target.cargo_metadata.root = 0 THEN Err(ERR_NO_ROOT)
    ELSE Ok(target.cargo_metadata.packages[target.cargo_metadata.root])

\* TargetCrate::cdylib_target
cdylib_target(target) ==
    LET root == root_package(target)
    IN  IF ~root.ok THEN root
        ELSE LET is_lib(t) == \E i \in 1..Len(t.kind) : t.kind[i] = "lib"
                 cdylibs == SelectSeq(root.value.targets, is_lib)
             IN  IF cdylibs = << >> THEN Err(ERR_NO_CDYLIB)
                 ELSE IF Len(cdylibs) > 1 THEN Err(ERR_MULTIPLE_CDYLIB)
                 ELSE Ok(cdylibs[1])

\* A mutant: only the major component of the versions is compared.
check_execute_command_major_only(target, our_uniffi_version) ==
    LET package == root_package(target)
        is_uniffi(p) == p.name = "uniffi"
    IN  IF ~package.ok THEN Err(<< package.error >>)
        ELSE LET uniffi_deps == SelectSeq(package.value.dependencies, is_uniffi)
                 uniffi_pkgs == SelectSeq(target.cargo_metadata.packages, is_uniffi)
             IN  IF uniffi_deps = << >> THEN Err(<< ERR_NO_UNIFFI >>)
                 ELSE IF uniffi_pkgs = << >> THEN Err(<< ERR_NO_UNIFFI >>)
                 ELSE IF Len(uniffi_pkgs) > 1 THEN Err(<< ERR_MULTIPLE_UNIFFI >>)
                 ELSE LET crate_uniffi_version ==
                              version_to_string(uniffi_pkgs[1].version)
                      IN  IF crate_uniffi_version[1] # our_uniffi_version[1]
                          THEN Err(<< ERR_VERSION, crate_uniffi_version,
                                      our_uniffi_version >>)
                          ELSE LET lib == cdylib_target(target)
                               IN  IF ~lib.ok THEN Err(<< lib.error >>)
                                   ELSE Ok("looks good")

\* commands::check::execute_command
check_execute_command(target, our_uniffi_version) ==
    LET package == root_package(target)
        is_uniffi(p) == p.name = "uniffi"
    IN  IF ~package.ok THEN Err(<< package.error >>)
        ELSE LET uniffi_deps == SelectSeq(package.value.dependencies, is_uniffi)
                 uniffi_pkgs == SelectSeq(target.cargo_metadata.packages, is_uniffi)
             IN  IF uniffi_deps = << >> THEN Err(<< ERR_NO_UNIFFI >>)
                 ELSE IF uniffi_pkgs = << >> THEN Err(<< ERR_NO_UNIFFI >>)
                 ELSE IF Len(uniffi_pkgs) > 1 THEN Err(<< ERR_MULTIPLE_UNIFFI >>)
                 ELSE LET crate_uniffi_version ==
                              version_to_string(uniffi_pkgs[1].version)
                      IN  IF crate_uniffi_version # our_uniffi_version
                          THEN Err(<< ERR_VERSION, crate_uniffi_version,
                                      our_uniffi_version >>)
                          ELSE LET lib == cdylib_target(target)
                               IN  IF ~lib.ok THEN Err(<< lib.error >>)
                                   ELSE Ok("looks good")

----------------------------------------------------------------------------
(* The inputs the converters are run on.                                    *)

RECURSIVE SeqsUpTo(_, _)
SeqsUpTo(S, n) ==
    IF n = 0 THEN { << >> }
    ELSE LET shorter == SeqsUpTo(S, n - 1)
         IN  shorter \cup { Append(q, x) : q \in shorter, x \in S }

\* syn::Variant: attrs (its documentation lines), ident, whether a
\* discriminant is present, and the kind of syn::Fields.
SynVariants ==
    [ attrs : { << >>, << S_detail >> },
      ident : { S_one, S_v },
      discriminant : BOOLEAN,
      fields : { "Unit", "Named", "Unnamed" } ]

\* syn::ItemEnum
SynEnums ==
    [ attrs : { << >>, << S_does_a_thing >> },
      ident : { S_Testing },
      variants : SeqsUpTo(SynVariants, MaxVariants) ]

\* weedle::EnumDefinition
IdlEnums ==
    [ identifier : { S_Testing, S_Example },
      values : SeqsUpTo({ S_one, S_two }, MaxLabels) ]

\* An IDL document: a namespace and its [Error] enums.
IdlDocs == [ namespace : { S_test }, enums : SeqsUpTo(IdlEnums, MaxEnums) ]

\* The ComponentInterface values a converter is handed.
CIs ==
    { NewComponentInterface(S_test),
      [ namespace |-> S_test,
        errors |-> << Error(S_Example, << S_two >>, << >>) >> ] }

----------------------------------------------------------------------------
(* The state machine.                                                      *)

ConvInit ==
    /\ conv_op = "none"
    /\ conv_in = << >>
    /\ conv_ci = NewComponentInterface(S_test)
    /\ conv_out = << >>

\* <weedle::EnumDefinition as APIConverter<Error>>::convert
ConvertIdl ==
    /\ conv_op = "none"
    /\ \E e \in IdlEnums, ci \in CIs :
          /\ conv_op' = "idl"
          /\ conv_in' = e
          /\ conv_ci' = ci
          /\ conv_out' = convert_idl(e, ci)
    /\ UNCHANGED << udlVars, writeVars, checkVars, gradleVars >>

\* <&syn::ItemEnum as APIConverter<Error>>::convert
ConvertSyn ==
    /\ conv_op = "none"
    /\ \E e \in SynEnums, ci \in CIs :
          /\ conv_op' = "syn"
          /\ conv_in' = e
          /\ conv_ci' = ci
          /\ conv_out' = convert_syn(e, ci)
    /\ UNCHANGED << udlVars, writeVars, checkVars, gradleVars >>

\* ComponentInterface::from_webidl
FromWebidl ==
    /\ conv_op = "none"
    /\ \E doc \in IdlDocs :
          /\ conv_op' = "from_webidl"
          /\ conv_in' = doc
          /\ conv_ci' = NewComponentInterface(doc.namespace)
          /\ conv_out' = from_webidl(doc)
    /\ UNCHANGED << udlVars, writeVars, checkVars, gradleVars >>

\* The caller takes the result; the next conversion starts afresh.
ConvReturn ==
    /\ conv_op # "none"
    /\ conv_op' = "none"
    /\ conv_in' = << >>
    /\ conv_ci' = NewComponentInterface(S_test)
    /\ conv_out' = << >>
    /\ UNCHANGED << udlVars, writeVars, checkVars, gradleVars >>

NextConv == ConvertIdl \/ ConvertSyn \/ FromWebidl \/ ConvReturn

UdlInit ==
    /\ udl_op = "none"
    /\ udl_in = None
    /\ udl_out = << >>

\* a template's use of the type_udl filter
RenderType ==
    /\ udl_op = "none"
    /\ \E t \in Types :
          /\ udl_op' = "type_udl"
          /\ udl_in' = t
          /\ udl_out' = type_udl(t)
    /\ UNCHANGED << convVars, writeVars, checkVars, gradleVars >>

\* a template's use of the return_type_udl filter
RenderReturnType ==
    /\ udl_op = "none"
    /\ \E r \in { None } \cup { Some(t) : t \in Types } :
          /\ udl_op' = "return_type_udl"
          /\ udl_in' = r
          /\ udl_out' = return_type_udl(r)
    /\ UNCHANGED << convVars, writeVars, checkVars, gradleVars >>

\* The template takes the text; the next use of a filter starts afresh.
UdlReturn ==
    /\ udl_op # "none"
    /\ udl_op' = "none"
    /\ udl_in' = None
    /\ udl_out' = << >>
    /\ UNCHANGED << convVars, writeVars, checkVars, gradleVars >>

NextUdl == RenderType \/ RenderReturnType \/ UdlReturn

----------------------------------------------------------------------------
(* write_bindings, step by step, on a file system.                          *)

AbsentFile == [exists |-> FALSE]
File(content) == [exists |-> TRUE, content |-> content]
Pending == [pending |-> TRUE]

OutDirs == { "out", "gen" }

WriteCIs ==
    [ namespace : { S_test, S_Example },
      errors : { << >>, << Error(S_Testing, << S_one >>, << >>) >> } ]

Paths == { udl_file_path(ci, d) : ci \in WriteCIs, d \in OutDirs }

WriteInit ==
    /\ wb_pc = "idle"
    /\ wb_ci = NewComponentInterface(S_test)
    /\ wb_file = udl_file_path(NewComponentInterface(S_test), "out")
    /\ wb_before = AbsentFile
    /\ wb_result = Pending
    /\ fs = [p \in Paths |-> AbsentFile]

\* write_bindings is entered: udl_file is built and printed.
WbCall ==
    /\ wb_pc \in { "idle", "returned" }
    /\ \E ci \in WriteCIs, out_dir \in OutDirs :
          /\ wb_ci' = ci
          /\ wb_file' = udl_file_path(ci, out_dir)
          /\ wb_before' = fs[udl_file_path(ci, out_dir)]
    /\ wb_result' = Pending
    /\ wb_pc' = "create"
    /\ UNCHANGED << fs, convVars, udlVars, checkVars, gradleVars >>

\* File::create(&udl_file) succeeds: the file exists and is empty.
WbCreateOk ==
    /\ wb_pc = "create"
    /\ fs' = [fs EXCEPT ![wb_file] = File(<< >>)]
    /\ wb_pc' = "render"
    /\ UNCHANGED << wb_ci, wb_file, wb_before, wb_result,
                    convVars, udlVars, checkVars, gradleVars >>

\* File::create(&udl_file) fails: the context error is returned.
WbCreateFail ==
    /\ wb_pc = "create"
    /\ wb_result' = Err(ERR_CREATE)
    /\ wb_pc' = "returned"
    /\ UNCHANGED << wb_ci, wb_file, wb_before, fs,
                    convVars, udlVars, checkVars, gradleVars >>

\* generate_udl_bindings(&ci)? with the file open.
WbRender ==
    /\ wb_pc = "render"
    /\ \E render_ok \in BOOLEAN :
          LET text == generate_udl_bindings(wb_ci, render_ok)
          IN  IF text.ok
              THEN wb_pc' = "write" /\ wb_result' = wb_result
              ELSE wb_pc' = "returned" /\ wb_result' = text
    /\ UNCHANGED << wb_ci, wb_file, wb_before, fs,
                    convVars, udlVars, checkVars, gradleVars >>

\* write!(f, "{}", text)?: all of the text, or a part of it and an error.
WbWrite ==
    /\ wb_pc = "write"
    /\ LET text == generate_udl_bindings(wb_ci, TRUE).value
       IN  \E n \in 0..Len(text) :
              /\ fs' = [fs EXCEPT ![wb_file] = File(SubSeq(text, 1, n))]
              /\ wb_result' = IF n = Len(text) THEN Ok("unit")
                              ELSE Err(ERR_WRITE)
    /\ wb_pc' = "returned"
    /\ UNCHANGED << wb_ci, wb_file, wb_before,
                    convVars, udlVars, checkVars, gradleVars >>

NextWrite == WbCall \/ WbCreateOk \/ WbCreateFail \/ WbRender \/ WbWrite

----------------------------------------------------------------------------
(* The check command on a target crate.                                     *)

Version(major, minor, patch) ==
    [major |-> major, minor |-> minor, patch |-> patch]

Package(name, version, dependencies, targets) ==
    [name |-> name, version |-> version, dependencies |-> dependencies,
     targets |-> targets]

\* cargo_metadata::Target, by its kinds.
Targets == { [kind |-> << "lib" >>], [kind |-> << "cdylib" >>],
             [kind |-> << "bin" >>] }

\* cargo_metadata::Dependency of the root package.
Dependencies == { [name |-> "uniffi"], [name |-> "serde"] }

\* The packages the build resolves beside the root package.
ResolvedPackages ==
    { Package("uniffi", v, << >>, << >>) :
          v \in { Version(0, 1, 0), Version(1, 0, 0), Version(1, 1, 0) } }
    \cup { Package("serde", Version(1, 0, 0), << >>, << >>) }

RootPackages ==
    { Package("example", Version(0, 1, 0), deps, targets) :
          deps \in SeqsUpTo(Dependencies, MaxDeps),
          targets \in SeqsUpTo(Targets, MaxTargets) }

\* TargetCrate::from_args: the metadata of a crate with a root package.
TargetCrates ==
    { [cargo_metadata |-> [packages |-> << root >> \o others, root |-> 1]] :
          root \in RootPackages,
          others \in SeqsUpTo(ResolvedPackages, MaxPackages) }

\* env!("CARGO_PKG_VERSION") of the builds considered.
ToolVersions ==
    { version_to_string(Version(0, 1, 0)), version_to_string(Version(1, 0, 0)) }

NoTarget ==
    [cargo_metadata |->
        [packages |-> << Package("example", Version(0, 1, 0), << >>, << >>) >>,
         root |-> 1]]

CheckInit ==
    /\ chk_in = NoTarget
    /\ chk_out = Pending
    /\ lib_in = NoTarget
    /\ lib_out = Pending

\* cargo uniffi check
Check ==
    /\ chk_out = Pending
    /\ lib_out = Pending
    /\ \E target \in TargetCrates :
          /\ chk_in' = target
          /\ chk_out' = check_execute_command(target, UNIFFI_VERSION)
    /\ UNCHANGED << UNIFFI_VERSION, lib_in, lib_out,
                    convVars, udlVars, writeVars, gradleVars >>

\* The command exits; the tool may be run again.
CheckExit ==
    /\ chk_out # Pending
    /\ chk_out' = Pending
    /\ chk_in' = NoTarget
    /\ UNCHANGED << UNIFFI_VERSION, lib_in, lib_out,
                    convVars, udlVars, writeVars, gradleVars >>

\* TargetCrate::cdylib_target, called by a command
LocateCdylib ==
    /\ chk_out = Pending
    /\ lib_out = Pending
    /\ \E target \in TargetCrates :
          /\ lib_in' = target
          /\ lib_out' = cdylib_target(target)
    /\ UNCHANGED << UNIFFI_VERSION, chk_in, chk_out,
                    convVars, udlVars, writeVars, gradleVars >>

\* The caller takes the target or the error.
LocateCdylibReturn ==
    /\ lib_out # Pending
    /\ lib_out' = Pending
    /\ lib_in' = NoTarget
    /\ UNCHANGED << UNIFFI_VERSION, chk_in, chk_out,
                    convVars, udlVars, writeVars, gradleVars >>

NextCheck == Check \/ CheckExit \/ LocateCdylib \/ LocateCdylibReturn

----------------------------------------------------------------------------
(* cargo_uniffi: the gradle command.                                        *)

ERR_IO == "io error"
ERR_RENDER_GRADLE == "Failed to render build.gradle file"
ERR_SPAWN == "Failed to spawn gradle"
ERR_WAIT == "Failed to wait for gradle"
ERR_GRADLE_FAILED == "running gradle failed"

\* A path is the sequence of its components.
TargetDirectories == { << "crate", "target" >>, << "workspace", "target" >> }

\* target.cargo_metadata.target_directory.join("uniffi")
project_dir_of(target_directory) == Append(target_directory, "uniffi")

\* The directories cargo uniffi may be started in.
WorkingDirectories == { << "crate" >>, << "crate", "target", "uniffi" >> }

GradleArgs == SeqsUpTo({ "build", "test" }, MaxArgs)

\* GradleBuildFile::render on the build.gradle template: the lines of the
\* build file of the crate.
GradleBuildFile_render(target_directory) ==
    << << "plugins" >>, << "crate", target_directory >> >>

NoDirectory == [exists |-> FALSE]
Directory(build_file) == [exists |-> TRUE, build_file |-> build_file]
NoProcess == [spawned |-> FALSE]

\* Command::new("gradle").args(args).spawn(): the child inherits the
\* current directory of the spawning process.
spawn_gradle(args, cwd) ==
    [spawned |-> TRUE, program |-> "gradle", args |-> args, cwd |-> cwd]

GradleInit ==
    /\ gr_pc = "idle"
    /\ gr_args = << >>
    /\ gr_target_dir = << "crate", "target" >>
    /\ gr_cwd = << "crate" >>
    /\ gr_fs = [d \in { project_dir_of(t) : t \in TargetDirectories }
                   |-> NoDirectory]
    /\ gr_proc = NoProcess
    /\ gr_result = Pending

GrOthersUnchanged == UNCHANGED << convVars, udlVars, writeVars, checkVars >>

\* commands::gradle::execute_command is entered: gradle_args are collected.
GrCall ==
    /\ gr_pc \in { "idle", "returned" }
    /\ \E args \in GradleArgs, t \in TargetDirectories,
          cwd \in WorkingDirectories :
          /\ gr_args' = args
          /\ gr_target_dir' = t
          /\ gr_cwd' = cwd
    /\ gr_proc' = NoProcess
    /\ gr_result' = Pending
    /\ gr_pc' = "create_dir"
    /\ UNCHANGED gr_fs
    /\ GrOthersUnchanged

\* ensure_gradle_project: std::fs::create_dir_all(&project_dir) succeeds.
GrCreateDirOk ==
    /\ gr_pc = "create_dir"
    /\ LET d == project_dir_of(gr_target_dir)
       IN  gr_fs' = IF gr_fs[d].exists THEN gr_fs
                    ELSE [gr_fs EXCEPT ![d] = Directory(AbsentFile)]
    /\ gr_pc' = "create_file"
    /\ UNCHANGED << gr_args, gr_target_dir, gr_cwd, gr_proc, gr_result >>
    /\ GrOthersUnchanged

\* ensure_gradle_project: std::fs::create_dir_all(&project_dir) fails.
GrCreateDirFail ==
    /\ gr_pc = "create_dir"
    /\ gr_result' = Err(ERR_IO)
    /\ gr_pc' = "returned"
    /\ UNCHANGED << gr_args, gr_target_dir, gr_cwd, gr_proc, gr_fs >>
    /\ GrOthersUnchanged

\* GradleBuildFile::generate: std::fs::File::create(&path) succeeds.
GrCreateFileOk ==
    /\ gr_pc = "create_file"
    /\ gr_fs' = [gr_fs EXCEPT ![project_dir_of(gr_target_dir)] =
                    Directory(File(<< >>))]
    /\ gr_pc' = "render"
    /\ UNCHANGED << gr_args, gr_target_dir, gr_cwd, gr_proc, gr_result >>
    /\ GrOthersUnchanged

\* GradleBuildFile::generate: std::fs::File::create(&path) fails.
GrCreateFileFail ==
    /\ gr_pc = "create_file"
    /\ gr_result' = Err(ERR_IO)
    /\ gr_pc' = "returned"
    /\ UNCHANGED << gr_args, gr_target_dir, gr_cwd, gr_proc, gr_fs >>
    /\ GrOthersUnchanged

\* GradleBuildFile::generate: template.render().context(..)?
GrRender ==
    /\ gr_pc = "render"
    /\ \E render_ok \in BOOLEAN :
          IF render_ok
          THEN gr_pc' = "write" /\ gr_result' = gr_result
          ELSE gr_pc' = "returned" /\ gr_result' = Err(ERR_RENDER_GRADLE)
    /\ UNCHANGED << gr_args, gr_target_dir, gr_cwd, gr_proc, gr_fs >>
    /\ GrOthersUnchanged

\* GradleBuildFile::generate: write!(f, "{}", text)?: all of the text, and
\* then ensure_gradle_project returns project_dir; or a part of it and an error.
GrWrite ==
    /\ gr_pc = "write"
    /\ LET text == GradleBuildFile_render(gr_target_dir)
       IN  \E n \in 0..Len(text) :
              /\ gr_fs' = [gr_fs EXCEPT ![project_dir_of(gr_target_dir)] =
                              Directory(File(SubSeq(text, 1, n)))]
              /\ IF n = Len(text)
                 THEN gr_pc' = "spawn" /\ gr_result' = gr_result
                 ELSE gr_pc' = "returned" /\ gr_result' = Err(ERR_IO)
    /\ UNCHANGED << gr_args, gr_target_dir, gr_cwd, gr_proc >>
    /\ GrOthersUnchanged

\* execute_gradle: Command::new("gradle").args(args).spawn() succeeds.
GrSpawnOk ==
    /\ gr_pc = "spawn"
    /\ gr_proc' = spawn_gradle(gr_args, gr_cwd)
    /\ gr_pc' = "wait"
    /\ UNCHANGED << gr_args, gr_target_dir, gr_cwd, gr_fs, gr_result >>
    /\ GrOthersUnchanged

\* execute_gradle: spawn() fails.
GrSpawnFail ==
    /\ gr_pc = "spawn"
    /\ gr_result' = Err(ERR_SPAWN)
    /\ gr_pc' = "returned"
    /\ UNCHANGED << gr_args, gr_target_dir, gr_cwd, gr_fs, gr_proc >>
    /\ GrOthersUnchanged

\* execute_gradle: wait() and the check of the exit status.
GrWait ==
    /\ gr_pc = "wait"
    /\ \E outcome \in { "success", "failure", "wait error" } :
          gr_result' = CASE outcome = "success" -> Ok("unit")
                         [] outcome = "failure" -> Err(ERR_GRADLE_FAILED)
                         [] outcome = "wait error" -> Err(ERR_WAIT)
    /\ gr_pc' = "returned"
    /\ UNCHANGED << gr_args, gr_target_dir, gr_cwd, gr_fs, gr_proc >>
    /\ GrOthersUnchanged

NextGradle ==
    \/ GrCall \/ GrCreateDirOk \/ GrCreateDirFail \/ GrCreateFileOk
    \/ GrCreateFileFail \/ GrRender \/ GrWrite \/ GrSpawnOk \/ GrSpawnFail
    \/ GrWait

----------------------------------------------------------------------------
(* The specifications.                                                      *)

Init ==
    /\ ConvInit
    /\ UdlInit
    /\ WriteInit
    /\ CheckInit
    /\ GradleInit
    /\ UNIFFI_VERSION = version_to_string(Version(0, 1, 0))

InitCheck ==
    /\ ConvInit
    /\ UdlInit
    /\ WriteInit
    /\ CheckInit
    /\ GradleInit
    /\ UNIFFI_VERSION \in ToolVersions

SpecConv == Init /\ [][NextConv]_vars
SpecUdl == Init /\ [][NextUdl]_vars
SpecWrite == Init /\ [][NextWrite]_vars
SpecCheck == InitCheck /\ [][NextCheck]_vars
SpecGradle == Init /\ [][NextGradle]_vars

----------------------------------------------------------------------------
(* Properties of write_bindings (SpecWrite).                                *)

\* C1: the destination file is neither created nor truncated nor written
\* before the text has been rendered, and a failed render leaves it exactly
\* as it was when write_bindings was entered.
DestinationUntouchedUntilRendered ==
    /\ wb_pc = "render" => fs[wb_file] = wb_before
    /\ (wb_pc = "returned" /\ wb_result = Err(ERR_RENDER))
          => fs[wb_file] = wb_before

----------------------------------------------------------------------------
(* Properties of the Error converters (SpecConv).                           *)

Offending(v) == v.discriminant \/ v.fields # "Unit"

OffendingIn(e) == { i \in 1..Len(e.variants) : Offending(e.variants[i]) }

S_discriminant ==
    <<"d", "i", "s", "c", "r", "i", "m", "i", "n", "a", "n", "t">>

S_fields == <<"f", "i", "e", "l", "d", "s">>

\* C2: converting an embedded-attribute enum with a variant that has a
\* discriminant or fields fails, and the failure names an offending variant
\* and cites the rule that variant breaks.
MalformedVariantIsNamed ==
    (conv_op = "syn" /\ OffendingIn(conv_in) # {}) =>
        /\ ~conv_out.result.ok
        /\ \E i \in OffendingIn(conv_in) :
              LET v == conv_in.variants[i]
                  msg == conv_out.result.error
              IN  /\ NamesWord(msg, v.ident)
                  /\ \/ v.discriminant /\ Occurrences(msg, S_discriminant) # {}
                     \/ v.fields # "Unit" /\ Occurrences(msg, S_fields) # {}

\* The documentation lines the variants contribute: for each variant with
\* documentation an empty line, the marker line and its lines after four spaces.
RECURSIVE MarkedVariantDocs(_)
MarkedVariantDocs(variants) ==
    IF variants = << >> THEN << >>
    ELSE LET v == Head(variants)
         IN  (IF v.attrs = << >> THEN << >>
              ELSE << << >>, << GRAVE >> \o v.ident \o << GRAVE, ":" >> >>
                   \o [i \in 1..Len(v.attrs) |->
                          << " ", " ", " ", " " >> \o v.attrs[i]])
             \o MarkedVariantDocs(Tail(variants))

\* C3: the documentation of a converted embedded-attribute enum is the enum's
\* own lines and then, per documented variant, an empty line, the unindented
\* marker line and the variant's lines indented by four spaces.
DocsAreEnumDocsThenMarkedVariantDocs ==
    (conv_op = "syn" /\ conv_out.result.ok) =>
        conv_out.result.value.docs
            = conv_in.attrs \o MarkedVariantDocs(conv_in.variants)

\* C4: converting an IDL [Error] enum never fails and yields the enum's name,
\* its labels verbatim, in order and with repeats, and no documentation; a
\* document with one such enum registers one Error with as many variants.
IdlErrorKeepsLabelsVerbatim ==
    /\ conv_op = "idl" =>
          /\ conv_out.result.ok
          /\ conv_out.result.value.name = conv_in.identifier
          /\ Len(conv_out.result.value.values) = Len(conv_in.values)
          /\ \A i \in 1..Len(conv_in.values) :
                conv_out.result.value.values[i] = conv_in.values[i]
          /\ conv_out.result.value.docs = << >>
    /\ (conv_op = "from_webidl" /\ Len(conv_in.enums) = 1) =>
          /\ conv_out.ok
          /\ Len(conv_out.value.errors) = 1
          /\ conv_out.value.errors[1].name = conv_in.enums[1].identifier
          /\ conv_out.value.errors[1].values = conv_in.enums[1].values

IdlErrorWithRepeatedLabel ==
    /\ conv_op = "idl"
    /\ conv_in.values = << S_one, S_two, S_one >>
    /\ conv_out.result.ok
    /\ Len(conv_out.result.value.values) = 3

\* The IDL enum with the variants of a unit-only embedded-attribute enum.
AsIdlEnum(e) ==
    [identifier |-> e.ident,
     values |-> [i \in 1..Len(e.variants) |-> e.variants[i].ident]]

\* The embedded-attribute enum with the labels of an IDL enum as unit variants.
AsSynEnum(e) ==
    [attrs |-> << >>,
     ident |-> e.identifier,
     variants |-> [i \in 1..Len(e.values) |->
                      [attrs |-> << >>, ident |-> e.values[i],
                       discriminant |-> FALSE, fields |-> "Unit"]]]

UnitOnlyUndocumented(e) ==
    /\ e.attrs = << >>
    /\ \A i \in 1..Len(e.variants) :
          ~Offending(e.variants[i]) /\ e.variants[i].attrs = << >>

\* C5: an [Error] enum in IDL and the equivalent embedded-attribute enum with
\* unit variants and no documentation convert to Errors equal in name and in
\* variant sequence, both without documentation.
FrontEndsAgree ==
    /\ (conv_op = "syn" /\ UnitOnlyUndocumented(conv_in)) =>
          LET idl == convert_idl(AsIdlEnum(conv_in), conv_ci).result
          IN  /\ conv_out.result.ok /\ idl.ok
              /\ conv_out.result.value.name = idl.value.name
              /\ conv_out.result.value.values = idl.value.values
              /\ conv_out.result.value.docs = << >>
              /\ idl.value.docs = << >>
    /\ conv_op = "idl" =>
          LET syn == convert_syn(AsSynEnum(conv_in), conv_ci).result
          IN  /\ conv_out.result.ok /\ syn.ok
              /\ conv_out.result.value.name = syn.value.name
              /\ conv_out.result.value.values = syn.value.values
              /\ conv_out.result.value.docs = << >>
              /\ syn.value.docs = << >>

UnitEnumConverted ==
    /\ conv_op = "syn"
    /\ UnitOnlyUndocumented(conv_in)
    /\ Len(conv_in.variants) = 2
    /\ conv_in.variants[1].ident = S_one
    /\ conv_in.variants[2].ident = S_v
    /\ conv_out.result.ok
    /\ conv_out.result.value.values = << S_one, S_v >>

NumViolations(e) ==
    Cardinality({ i \in 1..Len(e.variants) : e.variants[i].discriminant })
    + Cardinality({ i \in 1..Len(e.variants) : e.variants[i].fields # "Unit" })

\* C8: when an embedded-attribute enum breaks the rules several times, the
\* failure reports every violation, not only the first.
EveryViolationIsReported ==
    (conv_op = "syn" /\ NumViolations(conv_in) >= 2) =>
        /\ ~conv_out.result.ok
        /\ Cardinality(Occurrences(conv_out.result.error, MSG_DISCRIMINANT))
           + Cardinality(Occurrences(conv_out.result.error, MSG_FIELDS))
           = NumViolations(conv_in)

----------------------------------------------------------------------------
(* Properties of the canonical-IDL filters (SpecUdl).                       *)

PrimitiveSpelling(kind) ==
    CASE kind = "UInt8" -> <<"u", "8">>
      [] kind = "UInt16" -> <<"u", "1", "6">>
      [] kind = "UInt32" -> <<"u", "3", "2">>
      [] kind = "UInt64" -> <<"u", "6", "4">>
      [] kind = "Int8" -> <<"i", "8">>
      [] kind = "Int16" -> <<"i", "1", "6">>
      [] kind = "Int32" -> <<"i", "3", "2">>
      [] kind = "Int64" -> <<"i", "6", "4">>
      [] kind = "Float32" -> <<"f", "3", "2">>
      [] kind = "Float64" -> <<"f", "6", "4">>
      [] kind = "Boolean" -> <<"b", "o", "o", "l", "e", "a", "n">>
      [] kind = "String" -> <<"s", "t", "r", "i", "n", "g">>

S_sequence_open == <<"s", "e", "q", "u", "e", "n", "c", "e", "<">>

S_record_open ==
    <<"r", "e", "c", "o", "r", "d", "<", "D", "O", "M", "S", "t", "r", "i",
      "n", "g", ",", " ">>

S_sequence_string_opt ==
    <<"s", "e", "q", "u", "e", "n", "c", "e", "<", "s", "t", "r", "i", "n",
      "g", ">", "?">>

OptionalSequenceString ==
    [kind |-> "Optional",
     inner |-> [kind |-> "Sequence", inner |-> [kind |-> "String"]]]

\* C6: type_udl never fails; a primitive renders to its spelling, a named
\* kind to its bare name, Optional(T) to T's text and "?", Sequence(T) to
\* "sequence<" T's text ">", Map(T) to "record<DOMString, " T's text ">".
TypeUdlIsCompositional ==
    udl_op = "type_udl" =>
        /\ udl_out.ok
        /\ udl_in.kind \in PrimitiveKinds
              => udl_out.value = PrimitiveSpelling(udl_in.kind)
        /\ udl_in.kind \in NamedKinds => udl_out.value = udl_in.name
        /\ udl_in.kind \in CompositeKinds =>
              LET inner == type_udl(udl_in.inner)
              IN  /\ inner.ok
                  /\ udl_in.kind = "Optional"
                        => udl_out.value = inner.value \o <<"?">>
                  /\ udl_in.kind = "Sequence"
                        => udl_out.value
                              = S_sequence_open \o inner.value \o <<">">>
                  /\ udl_in.kind = "Map"
                        => udl_out.value
                              = S_record_open \o inner.value \o <<">">>
        /\ udl_in = OptionalSequenceString
              => udl_out.value = S_sequence_string_opt

OptionalSequenceStringRendered ==
    /\ udl_op = "type_udl"
    /\ udl_in = OptionalSequenceString
    /\ udl_out = Ok(S_sequence_string_opt)

\* A Type without the kinds of its named leaves.
RECURSIVE EraseNamedKind(_)
EraseNamedKind(t) ==
    IF t.kind \in NamedKinds THEN [kind |-> "Named", name |-> t.name]
    ELSE IF t.kind \in CompositeKinds
    THEN [kind |-> t.kind, inner |-> EraseNamedKind(t.inner)]
    ELSE t

EraseNamedKindOfSlot(r) ==
    IF r.some THEN Some(EraseNamedKind(r.value)) ELSE r

ReturnSlots == { None } \cup { Some(t) : t \in Types }

ReturnTypeUdlSpellsVoid ==
    udl_op = "return_type_udl" =>
        /\ udl_out.ok
        /\ ~udl_in.some => udl_out.value = <<"v", "o", "i", "d">>
        /\ udl_in.some => udl_out = type_udl(udl_in.value)

AbsentReturnTypeRendered ==
    /\ udl_op = "return_type_udl"
    /\ ~udl_in.some
    /\ udl_out = Ok(<<"v", "o", "i", "d">>)

----------------------------------------------------------------------------
(* Properties of the check command (SpecCheck).                             *)

UniffiPackages(target) ==
    { i \in 1..Len(target.cargo_metadata.packages) :
          target.cargo_metadata.packages[i].name = "uniffi" }

DependsOnUniffi(target) ==
    LET root == target.cargo_metadata.packages[target.cargo_metadata.root]
    IN  \E i \in 1..Len(root.dependencies) :
            root.dependencies[i].name = "uniffi"

FailsForVersion(out) == ~out.ok /\ out.error[1] = ERR_VERSION

CdylibTargets(target) ==
    LET root == target.cargo_metadata.packages[target.cargo_metadata.root]
    IN  { i \in 1..Len(root.targets) :
              \E k \in 1..Len(root.targets[i].kind) :
                  root.targets[i].kind[k] = "cdylib" }

\* C11: cdylib_target succeeds exactly when the root package has one target
\* of kind cdylib and returns it; without one it fails with the 'doesn't
\* build a dynamic library' error, with several with the 'multiple dynamic
\* libraries' error; so check succeeds only for crates with a single cdylib.
CdylibTargetFindsTheCdylib ==
    /\ lib_out # Pending =>
          LET root == lib_in.cargo_metadata.packages[lib_in.cargo_metadata.root]
              cdylibs == CdylibTargets(lib_in)
          IN  /\ lib_out.ok <=> Cardinality(cdylibs) = 1
              /\ lib_out.ok =>
                    \A i \in cdylibs : lib_out.value = root.targets[i]
              /\ cdylibs = {} => lib_out = Err(ERR_NO_CDYLIB)
              /\ Cardinality(cdylibs) > 1 => lib_out = Err(ERR_MULTIPLE_CDYLIB)
    /\ (chk_out # Pending /\ chk_out.ok)
          => Cardinality(CdylibTargets(chk_in)) = 1

\* C12: neither Error converter changes the ComponentInterface it is given:
\* after convert returns, with an Error or with a failure, the namespace and
\* the registered definitions are what they were before the call.
ConvertLeavesInterfaceUnchanged ==
    conv_op \in { "idl", "syn" } =>
        /\ conv_out.ci.namespace = conv_ci.namespace
        /\ conv_out.ci.errors = conv_ci.errors
        /\ conv_out.ci = conv_ci

FailedConversionOnPopulatedInterface ==
    /\ conv_op = "syn"
    /\ ~conv_out.result.ok
    /\ Len(conv_ci.errors) = 1
    /\ conv_out.ci.errors = conv_ci.errors

FirstOffending(e) ==
    CHOOSE i \in OffendingIn(e) : \A j \in OffendingIn(e) : i <= j

\* C14: the outcome of converting an embedded-attribute enum is fixed by the
\* enum: an Error with all variant identifiers in declaration order when no
\* variant offends, and otherwise the failure of the first offending variant
\* in declaration order, the discriminant one when it breaks both rules.
SynOutcomeIsFixedByTheEnum ==
    conv_op = "syn" =>
        IF OffendingIn(conv_in) = {}
        THEN /\ conv_out.result.ok
             /\ conv_out.result.value.name = conv_in.ident
             /\ conv_out.result.value.values
                   = [i \in 1..Len(conv_in.variants) |-> conv_in.variants[i].ident]
        ELSE /\ ~conv_out.result.ok
             /\ conv_out.result.error
                   = IF conv_in.variants[FirstOffending(conv_in)].discriminant
                     THEN MSG_DISCRIMINANT
                     ELSE MSG_FIELDS

DiscriminantReportedBeforeFields ==
    /\ conv_op = "syn"
    /\ Len(conv_in.variants) = 2
    /\ ~Offending(conv_in.variants[1])
    /\ conv_in.variants[2].discriminant
    /\ conv_in.variants[2].fields # "Unit"
    /\ conv_out.result = Err(MSG_DISCRIMINANT)

----------------------------------------------------------------------------
(* Properties of the gradle command (SpecGradle).                           *)

GenerationErrors == { Err(ERR_IO), Err(ERR_RENDER_GRADLE) }

BuildFileGenerated ==
    LET d == gr_fs[project_dir_of(gr_target_dir)]
    IN  /\ d.exists
        /\ d.build_file = File(GradleBuildFile_render(gr_target_dir))

\* The gradle command spawns gradle only after build.gradle is generated,
\* with the user's arguments in order, and fails whenever gradle cannot be
\* spawned or does not exit successfully.
GradleSpawnedAfterGeneration ==
    /\ gr_proc.spawned =>
          /\ BuildFileGenerated
          /\ gr_proc.program = "gradle"
          /\ gr_proc.args = gr_args
    /\ (gr_pc = "returned" /\ gr_result \in GenerationErrors)
          => ~gr_proc.spawned
    /\ (gr_pc = "returned" /\ gr_result.ok) => gr_proc.spawned
    /\ (gr_pc = "returned" /\ ~gr_proc.spawned) => ~gr_result.ok

\* C13: gradle runs in the generated project directory with the user's
\* arguments: build.gradle is generated there before gradle is spawned,
\* gradle is not spawned when generation fails, the working directory of the
\* spawned process is the project directory, and the command fails whenever
\* gradle cannot be spawned or exits unsuccessfully.
GradleRunsInProjectDirectory ==
    /\ GradleSpawnedAfterGeneration
    /\ gr_proc.spawned => gr_proc.cwd = project_dir_of(gr_target_dir)

====
